---- MODULE Spec2Model ----
(***************************************************************************)
(* Model of pycrystem/diffraction_signal.py: the module functions          *)
(* radial_average, circular_mask and refine_beam_position and the          *)
(* ElectronDiffraction methods get_direct_beam_mask,                        *)
(* get_direct_beam_position, get_direct_beam_shifts, _regional_filter and  *)
(* get_vacuum_mask.                                                        *)
(*                                                                         *)
(* Conventions.  A 2-D numpy array is a function                           *)
(* [0..R-1 -> [0..C-1 -> value]], indexed as in Python (row, column, from  *)
(* 0).  A Python tuple or 1-D array of length n is a TLA+ tuple, so        *)
(* shape[0] of the source is shape[1] here.  Coordinates that the source   *)
(* may hold as halves ((n - 1) / 2) are kept doubled and carry a 2 in      *)
(* their name.  A float quotient a / b is the pair <<a, b>>; b = 0 with    *)
(* a = 0 is IEEE NaN.                                                      *)
(***************************************************************************)
EXTENDS Integers, Sequences, FiniteSets, TLC

VARIABLES
    entry,      \* the function or method that was called
    pc,         \* position of the call in the code
    err,        \* the exception that ended the call, "" when none
    data,       \* self.data: the stack of frames, one per navigation index
    index,      \* navigation index of the frame being processed (1-based)
    start,      \* refine_beam_position: start (mref of the caller)
    radius,     \* radius argument
    c_int,      \* refine_beam_position: c_int
    mask,       \* refine_beam_position: mask
    z_tmp,      \* refine_beam_position: z_tmp
    c,          \* refine_beam_position: c
    ztmp,       \* refine_beam_position: ztmp
    ret,        \* refine_beam_position: the returned centre of mass
    gdbp_c,     \* get_direct_beam_position: the integer array c
    nan_int,    \* what the build makes of NaN converted to int
    centers,    \* get_direct_beam_shifts: centers
    shifts,     \* get_direct_beam_shifts: shifts (doubled)
    center2,    \* radial_average, get_vacuum_mask: center (doubled)
    profile,    \* radial_average: the returned radial_average
    threshold,  \* get_vacuum_mask: threshold
    closing,    \* get_vacuum_mask: closing
    opening,    \* get_vacuum_mask: opening
    h,          \* _regional_filter: h
    seed,       \* _regional_filter: seed, as the reconstruction dilates it
    steps,      \* the dilations the reconstruction has made
    filtered    \* _regional_filter: the returned z - dilated

vars == <<entry, pc, err, data, index, start, radius, c_int, mask, z_tmp, c,
          ztmp, ret, gdbp_c, nan_int, centers, shifts, center2, profile,
          threshold, closing, opening, h, seed, steps, filtered>>

\* the variables of _regional_filter
filter_vars == <<h, seed, steps, filtered>>

\* the variables the direct-beam functions leave alone
other_vars == <<center2, profile, threshold, closing, opening, filter_vars>>

\* the arguments of get_vacuum_mask, and what it leaves alone with them
vacuum_args == <<threshold, closing, opening, filter_vars>>

-----------------------------------------------------------------------------
(* Bounds of the model. *)

\* frames of refine_beam_position have 1..MaxDim rows and columns
MaxDim == 3
\* largest intensity of an enumerated pixel
MaxVal == 2
\* largest number of nonzero pixels of an enumerated frame
MaxLit == 2
\* radii are 1..MaxRadius
MaxRadius == 2
\* get_direct_beam_position is called on stacks of 1..MaxNav frames
MaxNav == 2
\* get_direct_beam_shifts is called on stacks of 1..ShiftsNav frames
ShiftsNav == 1
\* the frames of a stack have 1..StackDim rows and columns
StackDim == 2
\* largest number of nonzero pixels of an enumerated stack
StackLit == 2
\* frames of radial_average have 1..RadialDim rows and columns
RadialDim == 2
\* largest number of nonzero pixels of a frame of radial_average
RadialLit == 2
\* a center of radial_average lies up to RadialMargin pixels off the frame
RadialMargin == 1
\* get_vacuum_mask is called on stacks of 1..VacuumNav frames
VacuumNav == 2
\* largest number of nonzero pixels of a stack of get_vacuum_mask
VacuumLit == 1
\* thresholds are 0..MaxThreshold
MaxThreshold == 1
\* the depths h of _regional_filter are 0..MaxH
MaxH == 2

\* a local name that was never assigned, and Python's None
Unbound == <<>>
None == <<>>

-----------------------------------------------------------------------------
(* numpy helpers *)

Rows(A) == Cardinality(DOMAIN A)
Cols(A) == Cardinality(DOMAIN A[0])
\* A.shape
Shape(A) == <<Rows(A), Cols(A)>>
Pixels(A) == (0..(Rows(A) - 1)) \X (0..(Cols(A) - 1))
At(A, p) == A[p[1]][p[2]]
InBounds(A, p) == p \in Pixels(A)

RECURSIVE SumTo(_, _)
\* f[0] + ... + f[n - 1]
SumTo(f, n) == IF n = 0 THEN 0 ELSE f[n - 1] + SumTo(f, n - 1)

\* the sum of g[p] over the pixels p of an array of R rows and C columns
SumPixels(g, R, C) ==
    SumTo([k \in 0..(R * C - 1) |-> g[<<k \div C, k % C>>]], R * C)

\* A.max()
Max(A) ==
    LET vals == {At(A, p) : p \in Pixels(A)}
    IN  CHOOSE v \in vals : \A w \in vals : w <= v

\* np.where(A == A.max()): the positions of the maximum
Maxes(A) == {p \in Pixels(A) : At(A, p) = Max(A)}

\* np.rint(n / d) for n >= 0, d > 0: round to nearest, halves to even
Rint(n, d) ==
    LET q == n \div d
        r == n % d
    IN  IF 2 * r < d THEN q
        ELSE IF 2 * r > d THEN q + 1
        ELSE IF q % 2 = 0 THEN q ELSE q + 1

\* np.rint([np.average(maxes[0]), np.average(maxes[1])]).astype(int) for
\* maxes = np.asarray(np.where(A == A.max()))
RintAverage(A) ==
    LET S == Maxes(A)
        n == Cardinality(S)
        sum0 == SumPixels([p \in Pixels(A) |-> IF p \in S THEN p[1] ELSE 0],
                          Rows(A), Cols(A))
        sum1 == SumPixels([p \in Pixels(A) |-> IF p \in S THEN p[2] ELSE 0],
                          Rows(A), Cols(A))
    IN  <<Rint(sum0, n), Rint(sum1, n)>>

\* numpy broadcasting of two 2-D shapes
Broadcastable(s, t) ==
    /\ s[1] = t[1] \/ s[1] = 1 \/ t[1] = 1
    /\ s[2] = t[2] \/ s[2] = 1 \/ t[2] = 1

BMax(a, b) == IF a >= b THEN a ELSE b

\* z * mask for an array z and a boolean array m of broadcastable shapes
Mul(z, m) ==
    LET R == BMax(Rows(z), Rows(m))
        C == BMax(Cols(z), Cols(m))
    IN  [i \in 0..(R - 1) |-> [j \in 0..(C - 1) |->
            LET zi == IF Rows(z) = 1 THEN 0 ELSE i
                zj == IF Cols(z) = 1 THEN 0 ELSE j
                mi == IF Rows(m) = 1 THEN 0 ELSE i
                mj == IF Cols(m) = 1 THEN 0 ELSE j
            IN  IF m[mi][mj] THEN z[zi][zj] ELSE 0]]

\* scipy.ndimage.measurements.center_of_mass(A): per axis the sum of
\* coordinate * value over the sum of the values, <<sum_y, sum_x, total>>
center_of_mass(A) ==
    <<SumPixels([p \in Pixels(A) |-> p[1] * At(A, p)], Rows(A), Cols(A)),
      SumPixels([p \in Pixels(A) |-> p[2] * At(A, p)], Rows(A), Cols(A)),
      SumPixels([p \in Pixels(A) |-> At(A, p)], Rows(A), Cols(A))>>

-----------------------------------------------------------------------------
(* circular_mask *)

\* circular_mask(shape, radius, center) with center doubled: nx, ny =
\* shape[0], shape[1]; a, b = center; the open grid has ny rows running from
\* -b and nx columns running from -a; mask = x*x + y*y <= r*r
circular_mask(shape, r, ctr2) ==
    LET nx == shape[1]
        ny == shape[2]
        a2 == ctr2[1]
        b2 == ctr2[2]
    IN  [i \in 0..(ny - 1) |-> [j \in 0..(nx - 1) |->
            (2 * j - a2) * (2 * j - a2) + (2 * i - b2) * (2 * i - b2)
                <= 4 * r * r]]

-----------------------------------------------------------------------------
(* Inputs *)

\* the subsets of P of at most k elements
SmallSubsets(P, k) ==
    {{}} \cup UNION {{{s[i] : i \in 1..m} : s \in [1..m -> P]} : m \in 1..k}

\* the frames of H rows and W columns with at most lit nonzero pixels, each
\* of intensity 1..MaxVal
SparseFrames(H, W, lit) ==
    LET px == (0..(H - 1)) \X (0..(W - 1))
    IN  UNION {{[i \in 0..(H - 1) |-> [j \in 0..(W - 1) |->
                    IF <<i, j>> \in S THEN v[<<i, j>>] ELSE 0]] :
                v \in [S -> 1..MaxVal]} : S \in SmallSubsets(px, lit)}

\* the stacks of N frames of H rows and W columns with at most lit pixels of
\* intensity 1 in all, the others 0
BinaryStacks(N, H, W, lit) ==
    LET px == (1..N) \X (0..(H - 1)) \X (0..(W - 1))
    IN  {[n \in 1..N |-> [i \in 0..(H - 1) |-> [j \in 0..(W - 1) |->
            IF <<n, i, j>> \in S THEN 1 ELSE 0]]] : S \in SmallSubsets(px, lit)}

Dist2(p, q) == (p[1] - q[1]) * (p[1] - q[1]) + (p[2] - q[2]) * (p[2] - q[2])

\* a frame with one peak at p: the intensity falls by the squared distance
PeakFrame(H, W, p) ==
    [i \in 0..(H - 1) |-> [j \in 0..(W - 1) |->
        (H - 1) * (H - 1) + (W - 1) * (W - 1) - Dist2(p, <<i, j>>)]]

PeakFrames(H, W) == {PeakFrame(H, W, p) : p \in (0..(H - 1)) \X (0..(W - 1))}

-----------------------------------------------------------------------------
(* refine_beam_position(z, start, radius) *)

\* the frame of the current call
z == data[index]

\* lines 123-125
RefineBegin ==
    /\ UNCHANGED other_vars
    /\ pc = "begin"
    /\ c_int' = At(z, start)
    /\ \E m \in {circular_mask(Shape(z), radius,
                                <<2 * start[1], 2 * start[2]>>)} :
         /\ mask' = m
         /\ IF Broadcastable(Shape(z), Shape(m))
            THEN /\ z_tmp' = Mul(z, m)
                 /\ pc' = "if"
                 /\ err' = err
            ELSE /\ z_tmp' = z_tmp
                 /\ pc' = "raised"
                 /\ err' = "ValueError"
    /\ UNCHANGED <<entry, data, index, start, radius, c, ztmp, ret, gdbp_c,
                   nan_int, centers, shifts>>

\* a caller calls refine_beam_position(z, start, radius) with a frame, a pixel
\* of the frame and a positive radius
CallRefine ==
    /\ UNCHANGED other_vars
    /\ pc = "idle"
    /\ entry' = "refine_beam_position"
    /\ \E H \in 1..MaxDim, W \in 1..MaxDim :
         /\ \E f \in SparseFrames(H, W, MaxLit) \cup PeakFrames(H, W) :
              data' = <<f>>
         /\ start' \in (0..(H - 1)) \X (0..(W - 1))
    /\ index' = 1
    /\ radius' \in 1..MaxRadius
    /\ pc' = "begin"
    /\ UNCHANGED <<err, c_int, mask, z_tmp, c, ztmp, ret, gdbp_c, nan_int,
                   centers, shifts>>

\* lines 128-133 and 135-141: the same statements in both places; next is
\* where the call goes on when nothing is raised
Recenter(next) ==
    \E new_c \in {RintAverage(z_tmp)} :
        /\ c' = new_c
        /\ IF InBounds(z, new_c)
           THEN \E m \in {circular_mask(Shape(z), radius,
                                        <<2 * new_c[1], 2 * new_c[2]>>)} :
                    /\ c_int' = At(z, new_c)
                    /\ mask' = m
                    /\ ztmp' = Mul(z, m)
                    /\ err' = err
                    /\ pc' = next
           ELSE /\ UNCHANGED <<c_int, mask, ztmp>>
                /\ err' = "IndexError"
                /\ pc' = "raised"

\* line 127
RefineIf ==
    /\ UNCHANGED other_vars
    /\ pc = "if"
    /\ IF c_int = Max(z_tmp)
       THEN Recenter("while")
       ELSE /\ pc' = "while"
            /\ UNCHANGED <<c, c_int, mask, ztmp, err>>
    /\ UNCHANGED <<entry, data, index, start, radius, z_tmp, ret, gdbp_c,
                   nan_int, centers, shifts>>

\* line 134: the loop test
RefineWhile ==
    /\ UNCHANGED other_vars
    /\ pc = "while"
    /\ pc' = IF c_int < Max(z_tmp) THEN "body" ELSE "com"
    /\ UNCHANGED <<entry, err, data, index, start, radius, c_int, mask, z_tmp,
                   c, ztmp, ret, gdbp_c, nan_int, centers, shifts>>

\* lines 135-141: one pass through the loop body
RefineBody ==
    /\ UNCHANGED other_vars
    /\ pc = "body"
    /\ Recenter("while")
    /\ UNCHANGED <<entry, data, index, start, radius, z_tmp, ret, gdbp_c,
                   nan_int, centers, shifts>>

\* lines 143-145
RefineReturn ==
    /\ UNCHANGED other_vars
    /\ pc = "com"
    /\ IF ztmp = Unbound
       THEN /\ pc' = "raised"
            /\ err' = "UnboundLocalError"
            /\ ret' = ret
       ELSE /\ ret' = center_of_mass(ztmp)
            /\ pc' = "returned"
            /\ err' = err
    /\ UNCHANGED <<entry, data, index, start, radius, c_int, mask, z_tmp, c,
                   ztmp, gdbp_c, nan_int, centers, shifts>>

-----------------------------------------------------------------------------
(* ElectronDiffraction: axes_manager *)

\* self.axes_manager.navigation_size: the number of frames
navigation_size == Len(data)

\* self.axes_manager.signal_shape: the sizes of the signal axes in the order
\* (x, y), the reverse of the array shape (rows, columns) of a frame; it is
\* the shape get_direct_beam_mask hands to circular_mask, which returns an
\* array of shape[1] rows and shape[0] columns to be multiplied with frames
signal_shape == <<Cols(data[1]), Rows(data[1])>>

\* the elementwise sum of the frames: self.sum()
dp_sum ==
    [i \in 0..(Rows(data[1]) - 1) |-> [j \in 0..(Cols(data[1]) - 1) |->
        SumTo([n \in 0..(Len(data) - 1) |-> data[n + 1][i][j]], Len(data))]]

-----------------------------------------------------------------------------
(* get_direct_beam_position(radius) *)

\* the values a build gives NaN converted to an integer: the conversion is
\* undefined in C; builds give the most negative integer or 0
NaNAsInt == {0, -1000000}

\* a caller calls get_direct_beam_position(radius) on a stack
CallPosition ==
    /\ UNCHANGED other_vars
    /\ pc = "idle"
    /\ entry' = "get_direct_beam_position"
    /\ \E N \in 1..MaxNav, H \in 1..StackDim, W \in 1..StackDim :
         data' \in BinaryStacks(N, H, W, StackLit)
    /\ radius' \in 1..MaxRadius
    /\ nan_int' \in NaNAsInt
    /\ pc' = "gdbp"
    /\ UNCHANGED <<err, index, start, c_int, mask, z_tmp, c, ztmp, ret, gdbp_c,
                   centers, shifts>>

\* lines 219-226, and the first pass of the loop of line 227 up to the call
\* of refine_beam_position
PositionSeed ==
    /\ UNCHANGED other_vars
    /\ pc = "gdbp"
    /\ start' = RintAverage(dp_sum)
    /\ gdbp_c' = [i \in 1..navigation_size |-> <<0, 0>>]
    /\ index' = 1
    /\ pc' = "begin"
    /\ UNCHANGED <<entry, err, data, radius, c_int, mask, z_tmp, c, ztmp, ret,
                   nan_int, centers, shifts>>

\* a float stored into an array of dtype int: truncated, NaN as the build has
\* it
AsInt(num, den) == IF den = 0 THEN nan_int ELSE num \div den

\* c[index] = <the value returned> of line 229
StoreCenter(arr, i, com) ==
    [arr EXCEPT ![i] = <<AsInt(com[1], com[3]), AsInt(com[2], com[3])>>]

\* line 229 after refine_beam_position has returned, then the next pass of
\* the loop of line 227 or the return of line 231 (into line 262 when
\* get_direct_beam_shifts made the call)
PositionStore ==
    /\ UNCHANGED other_vars
    /\ pc = "returned"
    /\ entry # "refine_beam_position"
    /\ gdbp_c' = StoreCenter(gdbp_c, index, ret)
    /\ IF index < navigation_size
       THEN /\ index' = index + 1
            /\ pc' = "begin"
            /\ centers' = centers
       ELSE /\ index' = index
            /\ IF entry = "get_direct_beam_shifts"
               THEN pc' = "check" /\ centers' = gdbp_c'
               ELSE pc' = "done" /\ centers' = centers
    \* the locals of the call that returned are gone
    /\ c_int' = 0
    /\ mask' = Unbound
    /\ z_tmp' = Unbound
    /\ c' = Unbound
    /\ ztmp' = Unbound
    /\ UNCHANGED <<entry, err, data, start, radius, ret, nan_int, shifts>>

-----------------------------------------------------------------------------
(* get_direct_beam_shifts(centers, radius) *)

\* the shape of a 2-D array held as a sequence of rows
ArrayShape(a) == <<Len(a), Len(a[1])>>

\* the check without the length of the sequence
ShapeMismatchWidthOnly(cs) == ArrayShape(cs)[2] # 2

\* line 264
ShapeMismatch(cs) == ArrayShape(cs) # <<navigation_size, 2>>

\* lines 269-270, doubled
Shifts(cs) ==
    [i \in 1..Len(cs) |-> <<2 * cs[i][1] - (signal_shape[1] - 1),
                            2 * cs[i][2] - (signal_shape[2] - 1)>>]

\* the arrays of n rows a caller may pass as centers: rows of two pixel
\* coordinates of the frame, or rows of one or three zeros
CentersOf(n, H, W) ==
    [1..n -> {<<y, x>> : y \in 0..(H - 1), x \in 0..(W - 1)}]
        \cup {[i \in 1..n |-> <<0>>], [i \in 1..n |-> <<0, 0, 0>>]}

\* a caller calls get_direct_beam_shifts, with centers and no radius or with
\* a radius and no centers; line 261
CallShifts ==
    /\ UNCHANGED other_vars
    /\ pc = "idle"
    /\ entry' = "get_direct_beam_shifts"
    /\ \E N \in 1..ShiftsNav, H \in 1..StackDim, W \in 1..StackDim :
         \/ /\ data' \in BinaryStacks(N, H, W, StackLit)
            /\ centers' = None
            /\ radius' \in 1..MaxRadius
            /\ nan_int' \in NaNAsInt
            /\ pc' = "gdbp"
         \/ /\ data' \in BinaryStacks(N, H, W, 0)
            /\ \E n \in 1..(ShiftsNav + 1) : centers' \in CentersOf(n, H, W)
            /\ radius' = 0
            /\ nan_int' = 0
            /\ pc' = "check"
    /\ UNCHANGED <<err, index, start, c_int, mask, z_tmp, c, ztmp, ret, gdbp_c,
                   shifts>>

\* lines 263-272
ShiftsCheck ==
    /\ UNCHANGED other_vars
    /\ pc = "check"
    /\ IF ShapeMismatch(centers)
       THEN /\ err' = "ValueError"
            /\ pc' = "raised"
            /\ shifts' = shifts
       ELSE /\ shifts' = Shifts(centers)
            /\ pc' = "done"
            /\ err' = err
    /\ UNCHANGED <<entry, data, index, start, radius, c_int, mask, z_tmp, c,
                   ztmp, ret, gdbp_c, nan_int, centers>>

-----------------------------------------------------------------------------

(* radial_average(z, center) *)

\* the root rounded to the nearest integer instead
SqrtRounded(d2) ==
    CHOOSE k \in 0..d2 :
        /\ k = 0 \/ (2 * k - 1) * (2 * k - 1) <= d2
        /\ d2 < (2 * k + 1) * (2 * k + 1)

\* np.sqrt(d2 / 4).astype(np.int) for an integer d2 >= 0: the root,
\* truncated toward zero
SqrtAsInt(d2) == CHOOSE k \in 0..d2 : 4 * k * k <= d2 /\ d2 < 4 * (k + 1) * (k + 1)

\* lines 46-48: r of the pixel (y, x) = p, for center doubled
BinOf(p, ctr2) ==
    SqrtAsInt((2 * p[2] - ctr2[2]) * (2 * p[2] - ctr2[2])
              + (2 * p[1] - ctr2[1]) * (2 * p[1] - ctr2[1]))

RECURSIVE Bincount(_, _, _, _)
\* np.bincount(x, weights) over the first n elements of the ravelled arrays,
\* for an output of bins 0..top: every element adds its weight to the bin
\* its x names
Bincount(x, weights, n, top) ==
    IF n = 0 THEN [k \in 0..top |-> 0]
    ELSE [Bincount(x, weights, n - 1, top) EXCEPT ![x[n - 1]] =
              @ + weights[n - 1]]

\* a / b elementwise, as floats: the pair <<a, b>>, <<0, 0>> being NaN
Divide(a, b) == [k \in DOMAIN a |-> <<a[k], b[k]>>]

\* lines 46-54
radial_average(f, ctr2) ==
    LET C == Cols(f)
        n == Rows(f) * C
        r == [k \in 0..(n - 1) |-> BinOf(<<k \div C, k % C>>, ctr2)]
        zr == [k \in 0..(n - 1) |-> f[k \div C][k % C]]
        ones == [k \in 0..(n - 1) |-> 1]
        top == CHOOSE v \in {r[k] : k \in 0..(n - 1)} :
                   \A k \in 0..(n - 1) : r[k] <= v
        tbin == Bincount(r, zr, n, top)
        nr == Bincount(r, ones, n, top)
    IN  Divide(tbin, nr)

\* the doubled coordinates a center may have along an axis of n pixels: on
\* the axis by half pixels, or whole pixels before it
CenterCoords2(n) == (0..(2 * (n - 1))) \cup {-2 * k : k \in 1..RadialMargin}

\* a caller calls radial_average(z, center)
CallRadial ==
    /\ pc = "idle"
    /\ entry' = "radial_average"
    /\ \E H \in 1..RadialDim, W \in 1..RadialDim :
         /\ \E f \in SparseFrames(H, W, RadialLit) : data' = <<f>>
         /\ center2' \in CenterCoords2(H) \X CenterCoords2(W)
    /\ index' = 1
    /\ pc' = "radial"
    /\ UNCHANGED <<err, start, radius, c_int, mask, z_tmp, c, ztmp, ret,
                   gdbp_c, nan_int, centers, shifts, profile>>
    /\ UNCHANGED vacuum_args

\* lines 46-54
RadialAverage ==
    /\ pc = "radial"
    /\ profile' = radial_average(z, center2)
    /\ pc' = "done"
    /\ UNCHANGED <<entry, err, data, index, start, radius, c_int, mask, z_tmp,
                   c, ztmp, ret, gdbp_c, nan_int, centers, shifts, center2>>
    /\ UNCHANGED vacuum_args

NextRadial ==
    \/ CallRadial
    \/ RadialAverage

-----------------------------------------------------------------------------

(* get_direct_beam_mask(radius, center) and get_vacuum_mask *)

\* lines 181-187, with center doubled or None
get_direct_beam_mask(r, ctr2) ==
    LET shape == signal_shape
        ctr == IF ctr2 = None THEN <<shape[2] - 1, shape[1] - 1>> ELSE ctr2
    IN  circular_mask(shape, r, ctr)

\* np.invert of a boolean array
Invert(m) == [i \in DOMAIN m |-> [j \in DOMAIN m[i] |-> ~m[i][j]]]

\* the comparison made strict
IsVacuumStrict(mx, thr) == mx < thr

\* line 384 for one frame: the comparison of its maximum with the threshold
IsVacuum(mx, thr) == mx <= thr

\* lines 382-384: the mask before the morphological operations
vacuum_threshold(r, ctr2, thr) ==
    LET db == Invert(get_direct_beam_mask(r, ctr2))
    IN  [i \in 1..Len(data) |-> IsVacuum(Max(Mul(data[i], db)), thr)]

\* an element of a 1-D boolean array, border outside of it
Padded(m, i, border) == IF i \in 1..Len(m) THEN m[i] ELSE border

\* ndi.morphology.binary_dilation(m, border_value=0) of a 1-D array, with the
\* default structuring element of an element and its two neighbours
binary_dilation(m) ==
    [i \in 1..Len(m) |->
        Padded(m, i - 1, FALSE) \/ m[i] \/ Padded(m, i + 1, FALSE)]

\* ndi.morphology.binary_erosion(m, border_value=1) of a 1-D array
binary_erosion(m) ==
    [i \in 1..Len(m) |->
        Padded(m, i - 1, TRUE) /\ m[i] /\ Padded(m, i + 1, TRUE)]

\* a caller calls get_vacuum_mask on a stack with one navigation axis
CallVacuum ==
    /\ pc = "idle"
    /\ entry' = "get_vacuum_mask"
    /\ \E N \in 1..VacuumNav, H \in 1..StackDim, W \in 1..StackDim :
         data' \in BinaryStacks(N, H, W, VacuumLit)
    /\ radius' \in 0..MaxRadius
    /\ center2' \in {None, <<0, 0>>}
    /\ threshold' \in 0..MaxThreshold
    /\ closing' \in BOOLEAN
    /\ opening' \in BOOLEAN
    /\ pc' = "vacuum"
    /\ UNCHANGED <<err, index, start, c_int, mask, z_tmp, c, ztmp, ret, gdbp_c,
                   nan_int, centers, shifts, profile, filter_vars>>

\* lines 382-384
VacuumThreshold ==
    /\ pc = "vacuum"
    /\ mask' = vacuum_threshold(radius, center2, threshold)
    /\ pc' = "closing"
    /\ UNCHANGED <<entry, err, data, index, start, radius, c_int, z_tmp, c,
                   ztmp, ret, gdbp_c, nan_int, centers, shifts, center2,
                   profile, threshold, closing, opening, filter_vars>>

\* lines 385-389
VacuumClosing ==
    /\ pc = "closing"
    /\ mask' = IF closing THEN binary_erosion(binary_dilation(mask)) ELSE mask
    /\ pc' = "opening"
    /\ UNCHANGED <<entry, err, data, index, start, radius, c_int, z_tmp, c,
                   ztmp, ret, gdbp_c, nan_int, centers, shifts, center2,
                   profile, threshold, closing, opening, filter_vars>>

\* lines 390-395
VacuumOpening ==
    /\ pc = "opening"
    /\ mask' = IF opening THEN binary_dilation(binary_erosion(mask)) ELSE mask
    /\ pc' = "done"
    /\ UNCHANGED <<entry, err, data, index, start, radius, c_int, z_tmp, c,
                   ztmp, ret, gdbp_c, nan_int, centers, shifts, center2,
                   profile, threshold, closing, opening, filter_vars>>

NextVacuum ==
    \/ CallVacuum
    \/ VacuumThreshold
    \/ VacuumClosing
    \/ VacuumOpening

-----------------------------------------------------------------------------

(* _regional_filter(z, h) *)

\* the smaller of two numbers
Smaller(a, b) == IF a <= b THEN a ELSE b

\* line 299
SeedOf(f, depth) ==
    [i \in DOMAIN f |-> [j \in DOMAIN f[i] |-> f[i][j] - depth]]

\* the difference taken the other way round
DifferenceReversed(f, d) ==
    [i \in DOMAIN f |-> [j \in DOMAIN f[i] |-> d[i][j] - f[i][j]]]

\* line 303
Difference(f, d) ==
    [i \in DOMAIN f |-> [j \in DOMAIN f[i] |-> f[i][j] - d[i][j]]]

\* the grey dilation of an image by the 3 x 3 neighbourhood: every pixel
\* takes the maximum over itself and its neighbours inside the image
Dilate(img) ==
    [i \in DOMAIN img |-> [j \in DOMAIN img[i] |->
        LET near == {q \in Pixels(img) :
                        q[1] - i \in -1..1 /\ q[2] - j \in -1..1}
            vals == {At(img, q) : q \in near}
        IN  CHOOSE v \in vals : \A w \in vals : w <= v]]

\* one step of morphology.reconstruction(seed, mask, method='dilation'):
\* dilate, then clip pointwise to the mask
DilateAndClip(img, m) ==
    LET d == Dilate(img)
    IN  [i \in DOMAIN img |-> [j \in DOMAIN img[i] |-> Smaller(d[i][j], m[i][j])]]

\* a caller (remove_background, line 307) maps _regional_filter over a frame
CallFilter ==
    /\ pc = "idle"
    /\ entry' = "_regional_filter"
    /\ \E H \in 1..StackDim, W \in 1..MaxDim :
         \E f \in SparseFrames(H, W, MaxLit) : data' = <<f>>
    /\ index' = 1
    /\ h' \in 0..MaxH
    /\ pc' = "filter"
    /\ UNCHANGED <<err, start, radius, c_int, mask, z_tmp, c, ztmp, ret,
                   gdbp_c, nan_int, centers, shifts, center2, profile,
                   threshold, closing, opening, seed, steps, filtered>>

\* lines 298-300 (mask is z itself)
FilterSeed ==
    /\ pc = "filter"
    /\ seed' = SeedOf(z, h)
    /\ steps' = 0
    /\ pc' = "reconstruction"
    /\ UNCHANGED <<entry, err, data, index, start, radius, c_int, mask, z_tmp,
                   c, ztmp, ret, gdbp_c, nan_int, centers, shifts, center2,
                   profile, threshold, closing, opening, h, filtered>>

\* line 301: one dilation of the reconstruction that changes a pixel
ReconstructionStep ==
    /\ pc = "reconstruction"
    /\ DilateAndClip(seed, z) # seed
    /\ seed' = DilateAndClip(seed, z)
    /\ steps' = steps + 1
    /\ UNCHANGED <<entry, pc, err, data, index, start, radius, c_int, mask,
                   z_tmp, c, ztmp, ret, gdbp_c, nan_int, centers, shifts,
                   center2, profile, threshold, closing, opening, h, filtered>>

\* lines 301-303: no pixel changes any more; dilated is the fixed point
FilterReturn ==
    /\ pc = "reconstruction"
    /\ DilateAndClip(seed, z) = seed
    /\ filtered' = Difference(z, seed)
    /\ pc' = "done"
    /\ UNCHANGED <<entry, err, data, index, start, radius, c_int, mask, z_tmp,
                   c, ztmp, ret, gdbp_c, nan_int, centers, shifts, center2,
                   profile, threshold, closing, opening, h, seed, steps>>

NextFilter ==
    \/ CallFilter
    \/ FilterSeed
    \/ ReconstructionStep
    \/ FilterReturn

-----------------------------------------------------------------------------

\* no call has been made
Init ==
    /\ entry = ""
    /\ pc = "idle"
    /\ err = ""
    /\ data = Unbound
    /\ index = 0
    /\ start = Unbound
    /\ radius = 0
    /\ c_int = 0
    /\ mask = Unbound
    /\ z_tmp = Unbound
    /\ c = Unbound
    /\ ztmp = Unbound
    /\ ret = Unbound
    /\ gdbp_c = Unbound
    /\ nan_int = 0
    /\ centers = None
    /\ shifts = Unbound
    /\ center2 = Unbound
    /\ profile = Unbound
    /\ threshold = 0
    /\ closing = FALSE
    /\ opening = FALSE
    /\ h = 0
    /\ seed = Unbound
    /\ steps = 0
    /\ filtered = Unbound

NextRefine ==
    \/ CallRefine
    \/ RefineBegin
    \/ RefineIf
    \/ RefineWhile
    \/ RefineBody
    \/ RefineReturn

\* a call, once made, keeps running: every step of the function that can be
\* taken is taken; whether a call is made is up to the caller
RefineFairness ==
    /\ WF_vars(RefineBegin)
    /\ WF_vars(RefineIf)
    /\ WF_vars(RefineWhile)
    /\ WF_vars(RefineBody)
    /\ WF_vars(RefineReturn)

SpecRefine == Init /\ [][NextRefine]_vars /\ RefineFairness

NextPosition ==
    \/ CallPosition
    \/ PositionSeed
    \/ RefineBegin
    \/ RefineIf
    \/ RefineWhile
    \/ RefineBody
    \/ RefineReturn
    \/ PositionStore

SpecPosition == Init /\ [][NextPosition]_vars

NextShifts ==
    \/ CallShifts
    \/ PositionSeed
    \/ RefineBegin
    \/ RefineIf
    \/ RefineWhile
    \/ RefineBody
    \/ RefineReturn
    \/ PositionStore
    \/ ShiftsCheck

SpecShifts == Init /\ [][NextShifts]_vars

SpecRadial == Init /\ [][NextRadial]_vars

SpecVacuum == Init /\ [][NextVacuum]_vars

SpecFilter == Init /\ [][NextFilter]_vars

-----------------------------------------------------------------------------
(* Properties of refine_beam_position *)

\* the centre the call currently stands on: c once assigned, start before
Current == IF c = Unbound THEN start ELSE c

\* the frame masked by the mask the code builds around centre p
MaskedAround(p) ==
    Mul(z, circular_mask(Shape(z), radius, <<2 * p[1], 2 * p[2]>>))

\* the disc of the data model: pixel (y, x) is inside iff its distance from
\* (row, col) is at most r
InDisc(q, p, r) == Dist2(q, p) <= r * r

\* C1: every call of refine_beam_position comes to an end after finitely
\* many passes through its loop: it returns or reports a condition to its
\* caller, and never loops forever.
C1_Finishes == (pc = "begin") ~> (pc = "returned" \/ pc = "raised")

\* C2: when the refinement loop is left, the intensity at the final centre
\* is at least the maximum of the frame masked around that same centre.
C2_LocalMaximum ==
    pc = "com" => At(z, Current) >= Max(MaskedAround(Current))

\* intensity positive at p and strictly decreasing with the distance from p
SinglePeak(f, p) ==
    /\ At(f, p) > 0
    /\ \A q1 \in Pixels(f), q2 \in Pixels(f) :
         /\ Dist2(q1, p) < Dist2(q2, p) => At(f, q1) > At(f, q2)
         /\ Dist2(q1, p) = Dist2(q2, p) => At(f, q1) = At(f, q2)

\* the frame with everything outside the disc of radius r around p zeroed
DiscMasked(f, p, r) ==
    [i \in 0..(Rows(f) - 1) |-> [j \in 0..(Cols(f) - 1) |->
        IF InDisc(<<i, j>>, p, r) THEN f[i][j] ELSE 0]]

Abs(n) == IF n < 0 THEN -n ELSE n

\* C3: on a frame with a single peak p and a start within the radius of p,
\* the call raises nothing, the hill climbing ends on c = p, and the value
\* returned is the centre of mass of the frame masked around p, within one
\* pixel of p.
C3_SinglePeak ==
    pc # "idle" => \A p \in Pixels(z) :
        (SinglePeak(z, p) /\ Dist2(start, p) <= radius * radius) =>
            /\ pc # "raised"
            /\ pc \in {"com", "returned"} => c = p
            /\ pc = "returned" =>
                 /\ ret = center_of_mass(DiscMasked(z, p, radius))
                 /\ Abs(ret[1] - p[1] * ret[3]) <= ret[3]
                 /\ Abs(ret[2] - p[2] * ret[3]) <= ret[3]

\* C9: every mask the call builds has the shape of the frame and holds
\* exactly the pixels within the radius of the centre it was built around;
\* so the centre is inside it, the masked maximum is not below the intensity
\* at the centre, and a masked frame exists when the centroid is taken.
C9_MaskOfFrame ==
    /\ (mask # Unbound /\ err = "") =>
         /\ Shape(mask) = Shape(z)
         /\ \A q \in Pixels(z) : At(mask, q) <=> InDisc(q, Current, radius)
         /\ At(mask, Current)
         /\ Max(MaskedAround(Current)) >= At(z, Current)
    /\ pc = "com" => ztmp # Unbound
-----------------------------------------------------------------------------
(* Properties of get_direct_beam_position and get_direct_beam_shifts *)

\* the navigation index whose centre the last PositionStore wrote
LastStored == IF pc = "begin" THEN index - 1 ELSE index

\* C7: entry i of the result of get_direct_beam_position is the sub-pixel
\* position refine_beam_position returned for frame i, neither truncated nor
\* rounded, and the seed of every refinement is the one global estimate taken
\* from the sum of all frames.
C7_SubPixelCentres ==
    (entry = "get_direct_beam_position" /\ pc \notin {"idle", "gdbp"}) =>
        /\ start = RintAverage(dp_sum)
        /\ (LastStored >= 1 /\ pc \in {"begin", "done"} /\ ret[3] # 0) =>
             /\ gdbp_c[LastStored][1] * ret[3] = ret[1]
             /\ gdbp_c[LastStored][2] * ret[3] = ret[2]

\* the call of get_direct_beam_shifts was made with a centers sequence
Supplied ==
    /\ entry = "get_direct_beam_shifts"
    /\ gdbp_c = Unbound
    /\ centers # None

\* C4: get_direct_beam_shifts called with a centers sequence whose length is
\* not the navigation size raises the validation error and computes no
\* shifts; called with centers of shape (navigation_size, 2) it raises
\* nothing and returns.
C4_CentersValidated ==
    Supplied =>
        /\ Len(centers) # navigation_size =>
             /\ shifts = Unbound
             /\ pc \in {"check", "raised"}
             /\ pc = "raised" => err = "ValueError"
        /\ ArrayShape(centers) = <<navigation_size, 2>> =>
             /\ err = ""
             /\ pc \in {"check", "done"}

\* a call with too many or too few centers has been rejected
C4_Witness ==
    /\ Supplied
    /\ Len(centers) # navigation_size
    /\ pc = "raised"

\* C8: for a frame of H rows and W columns the shift of a center
\* (row, col) is (row - (H-1)/2, col - (W-1)/2); both sides doubled.
C8_ShiftFromFrameCentre ==
    (entry = "get_direct_beam_shifts" /\ pc = "done") =>
        \A i \in 1..Len(centers) :
            shifts[i] = <<2 * centers[i][1] - (Rows(data[1]) - 1),
                          2 * centers[i][2] - (Cols(data[1]) - 1)>>
-----------------------------------------------------------------------------
(* Properties of radial_average *)

\* the pixels whose distance from the center, truncated toward zero, is k:
\* k <= distance < k + 1, with the center doubled
PixelsOfBin(f, ctr2, k) ==
    {p \in Pixels(f) :
        LET d2 == (2 * p[1] - ctr2[1]) * (2 * p[1] - ctr2[1])
                  + (2 * p[2] - ctr2[2]) * (2 * p[2] - ctr2[2])
        IN  4 * k * k <= d2 /\ d2 < 4 * (k + 1) * (k + 1)}

\* the sum of the intensities of a set of pixels
Intensity(f, S) ==
    SumPixels([p \in Pixels(f) |-> IF p \in S THEN At(f, p) ELSE 0],
              Rows(f), Cols(f))

\* the largest bin that holds a pixel
TopBin(f, ctr2) ==
    CHOOSE k \in 0..(2 * (RadialDim + RadialMargin)) :
        /\ PixelsOfBin(f, ctr2, k) # {}
        /\ \A j \in (k + 1)..(2 * (RadialDim + RadialMargin)) :
               PixelsOfBin(f, ctr2, j) = {}

\* C6: the profile has one value for every bin from 0 to the largest
\* truncated distance of a pixel; a bin that holds pixels has the value
\* (sum of their intensities) / (their number), and a bin that holds none
\* has the value NaN, not zero.
C6_RadialProfile ==
    (pc = "done" /\ entry = "radial_average") =>
        /\ DOMAIN profile = 0..TopBin(z, center2)
        /\ \A k \in DOMAIN profile :
             LET S == PixelsOfBin(z, center2, k)
             IN  IF S = {}
                 THEN profile[k] = <<0, 0>>
                 ELSE /\ profile[k][2] = Cardinality(S)
                      /\ profile[k][1] = Intensity(z, S)

\* a profile with a bin that holds no pixel and a bin whose pixels have a
\* nonzero sum has been returned
C6_Witness ==
    /\ pc = "done"
    /\ entry = "radial_average"
    /\ \E k \in DOMAIN profile : PixelsOfBin(z, center2, k) = {}
    /\ \E k \in DOMAIN profile :
         Cardinality(PixelsOfBin(z, center2, k)) > 1 /\ profile[k][1] > 0
-----------------------------------------------------------------------------
(* Properties of get_vacuum_mask *)

\* the pixels of a frame outside the direct-beam mask of the call
OutsideBeam ==
    {p \in Pixels(data[1]) : ~At(get_direct_beam_mask(radius, center2), p)}

AllZeroOutside(i) == \A p \in OutsideBeam : At(data[i], p) = 0

SignalOutside(i) == \E p \in OutsideBeam : At(data[i], p) > threshold

VacuumReturned == entry = "get_vacuum_mask" /\ pc = "done"

\* C5 as stated: whatever closing and opening are, the returned mask is true
\* at a frame that is all zero outside the direct-beam mask when threshold = 0
\* and false at a frame with a pixel above the threshold outside it.
C5_PerFrameAnySetting ==
    VacuumReturned =>
        \A i \in 1..Len(data) :
            /\ (AllZeroOutside(i) /\ threshold = 0) => mask[i]
            /\ SignalOutside(i) => ~mask[i]

\* C5 amended: the returned mask is true at a frame that is all zero outside
\* the direct-beam mask when threshold = 0, provided opening is off, and
\* false at a frame with a pixel above the threshold outside it, provided
\* closing is off.
C5_PerFrame ==
    VacuumReturned =>
        \A i \in 1..Len(data) :
            /\ (AllZeroOutside(i) /\ threshold = 0 /\ ~opening) => mask[i]
            /\ (SignalOutside(i) /\ ~closing) => ~mask[i]

\* a mask with a vacuum frame and a frame with signal has been returned
\* untouched by closing and opening
C5_Witness ==
    /\ VacuumReturned
    /\ ~closing
    /\ ~opening
    /\ threshold = 0
    /\ \E i \in 1..Len(data) : AllZeroOutside(i) /\ mask[i]
    /\ \E i \in 1..Len(data) : SignalOutside(i) /\ ~mask[i]
-----------------------------------------------------------------------------
(* Properties of _regional_filter *)

\* C10: the dilate-and-clip iteration from seed = frame - h under mask =
\* frame reaches its fixed point within as many dilations as the frame has
\* pixels; the reconstruction lies between frame - h and frame at every
\* pixel, and every pixel of the output frame - reconstruction lies between
\* 0 and h.
C10_Reconstruction ==
    entry = "_regional_filter" =>
        /\ pc \in {"reconstruction", "done"} =>
             /\ steps <= Rows(z) * Cols(z)
             /\ \A p \in Pixels(z) :
                  At(z, p) - h <= At(seed, p) /\ At(seed, p) <= At(z, p)
        /\ pc = "done" =>
             /\ DilateAndClip(seed, z) = seed
             /\ \A p \in Pixels(z) : At(filtered, p) \in 0..h

\* a frame has been filtered in more than one dilation, a peak cut by the
\* whole of h and the background around it left at 0
C10_Witness ==
    /\ entry = "_regional_filter"
    /\ pc = "done"
    /\ h > 0
    /\ steps >= 2
    /\ \E p \in Pixels(z) : At(filtered, p) = h
    /\ \E p \in Pixels(z) : At(filtered, p) = 0 /\ At(seed, p) > At(z, p) - h

====
